---- MODULE Spec2Model ----
(***************************************************************************)
(* Surface_Tracker_Offline (pupil_src/shared_modules/surface_tracker/      *)
(* surface_tracker_offline.py): the offline marker cache, its background   *)
(* producer, the gaze / fixation buffer fillers and the persisted cache    *)
(* document, as a state machine.                                           *)
(*                                                                         *)
(* The owner (plugin) runs single-threaded: every handler is one atomic    *)
(* action.  The background tasks run in their own processes: each of their *)
(* steps is an action of its own.                                          *)
(***************************************************************************)
EXTENDS Integers, Sequences, FiniteSets, TLC

(***************************************************************************)
(* Bounds of the model.                                                    *)
(***************************************************************************)
\* number of frames of the world video (len(g_pool.timestamps))
NumFrames == 2
\* the length of the list the range bookkeeping of Cache_List is exercised on
CacheLen == 5
\* number of defined surfaces (len(self.surfaces)), at least one
NumSurfaces == 1
\* buffer fills (_fill_gaze_on_surf_buffer calls) while the buffers hold results
MaxFills == 2
\* producers left running without a reference at any one time
MaxOrphans == 1

(***************************************************************************)
(* Program constants.                                                      *)
(***************************************************************************)
MARKER_CACHE_VERSION == 3
CACHE_MIN_MARKER_PERIMETER == 20
CACHE_UPDATE_INTERVAL_SEC == 5
\* __init__(..., marker_min_perimeter=60, ...)
DefaultMinPerimeter == 60
\* previous_cache.get("version", 0)
DefaultVersion == 0

Frames == 0 .. (NumFrames - 1)
Surfaces == 1 .. NumSurfaces
\* values the user can give the minimum marker perimeter
Perimeters == {DefaultMinPerimeter, DefaultMinPerimeter + 30}
\* versions a persisted document can carry
Versions == {MARKER_CACHE_VERSION - 1, MARKER_CACHE_VERSION}

(***************************************************************************)
(* Marker detections.  In memory a detection is a Square_Marker_Detection  *)
(* (a record); in the persisted document it is the tuple of its arguments. *)
(***************************************************************************)
Square_Marker_Detection(args) == [id |-> args[1], perimeter |-> args[2]]

MarkerArgs(m) == <<m.id, m.perimeter>>

SmallMarker == Square_Marker_Detection(<<1, CACHE_MIN_MARKER_PERIMETER + 20>>)
BigMarker == Square_Marker_Detection(<<2, DefaultMinPerimeter + 20>>)

\* The detector (offline_utils.marker_detection_callable) is a pure function of
\* the frame and the polarity; it reports every marker of at least
\* CACHE_MIN_MARKER_PERIMETER, possibly twice.
SceneNormal(f) ==
    CASE f % 3 = 0 -> <<SmallMarker, BigMarker, BigMarker>>
      [] f % 3 = 1 -> <<>>
      [] OTHER     -> <<SmallMarker>>

SceneInverted(f) ==
    CASE f % 3 = 0 -> <<>>
      [] f % 3 = 1 -> <<BigMarker>>
      [] OTHER     -> <<BigMarker, SmallMarker>>

marker_detection_callable(min_perimeter, inverted, f) ==
    SelectSeq(IF inverted THEN SceneInverted(f) ELSE SceneNormal(f),
              LAMBDA m : m.perimeter >= min_perimeter)

(***************************************************************************)
(* Cache slots.  Python keeps False for a frame that was never visited,    *)
(* [] for a visited frame without markers and a list otherwise.            *)
(***************************************************************************)
Unknown == [known |-> FALSE, items |-> <<>>]
Value(l) == [known |-> TRUE, items |-> l]
\* Python truthiness of a slot: `if markers:`
Truthy(slot) == slot.known /\ Len(slot.items) > 0
\* `x is False`
IsFalse(slot) == ~slot.known

\* a positive predicate that takes every computed slot, the empty list too, as
\* positive
PositiveWhenComputed(x) == ~IsFalse(x)

\* def _cache_positive_eval_fn(x): return (x is not False) and len(x) > 0
cache_positive_eval_fn(x) == (~IsFalse(x)) /\ Len(x.items) > 0

RECURSIVE RemoveDuplicates(_)
RemoveDuplicates(l) ==
    IF l = <<>> THEN <<>>
    ELSE LET rest == RemoveDuplicates(SubSeq(l, 1, Len(l) - 1))
             x == l[Len(l)]
         IN IF \E i \in 1 .. Len(rest) : rest[i] = x THEN rest
            ELSE Append(rest, x)

\* Surface_Tracker._remove_duplicate_markers
remove_duplicate_markers(markers) == RemoveDuplicates(markers)

\* Surface_Tracker._filter_markers
filter_markers(markers, min_perimeter) ==
    SelectSeq(markers, LAMBDA m : m.perimeter >= min_perimeter)

(***************************************************************************)
(* Cache_List: the slots of a cache with its two range summaries, kept as  *)
(* sorted sequences of half-open ranges <<start, end>>.                    *)
(***************************************************************************)
visited_eval_fn(x) == ~IsFalse(x)

RECURSIVE SortRanges(_)
SortRanges(R) ==
    IF R = {} THEN <<>>
    ELSE LET r == CHOOSE x \in R : \A y \in R : x[1] <= y[1]
         IN <<r>> \o SortRanges(R \ {r})

RangeSet(ranges) == {ranges[k] : k \in 1 .. Len(ranges)}

\* Cache_List.init_ranges: the maximal runs of the frames at which `holds`
\* (the evaluation function applied to each slot) is true
init_ranges(holds) ==
    SortRanges({<<a, b>> \in (DOMAIN holds)
                              \X ((DOMAIN holds) \cup {Cardinality(DOMAIN holds)}) :
                  /\ a < b
                  /\ \A i \in a .. (b - 1) : holds[i]
                  /\ (a - 1 \in DOMAIN holds => ~holds[a - 1])
                  /\ (b \in DOMAIN holds => ~holds[b])})

\* Cache_List.update_ranges: the ranges after slot i changed, found by looking
\* at the ranges that touch i only
update_ranges(ranges, i, holds) ==
    LET R == RangeSet(ranges)
        inside == {r \in R : r[1] <= i /\ i < r[2]}
        left == {r \in R : r[2] = i}
        right == {r \in R : r[1] = i + 1}
        lo == IF left = {} THEN i ELSE (CHOOSE r \in left : TRUE)[1]
        hi == IF right = {} THEN i + 1 ELSE (CHOOSE r \in right : TRUE)[2]
    IN IF holds
       THEN IF inside # {} THEN ranges
            ELSE SortRanges((R \ (left \cup right)) \cup {<<lo, hi>>})
       ELSE IF inside = {} THEN ranges
            ELSE LET r == CHOOSE x \in inside : TRUE
                 IN SortRanges((R \ {r})
                       \cup (IF r[1] < i THEN {<<r[1], i>>} ELSE {})
                       \cup (IF i + 1 < r[2] THEN {<<i + 1, r[2]>>} ELSE {}))

\* Cache_List(init_list, positive_eval_fn=_cache_positive_eval_fn)
Cache_List(init_list) ==
    [slots |-> init_list,
     visited_ranges |->
         init_ranges([i \in DOMAIN init_list |-> visited_eval_fn(init_list[i])]),
     positive_ranges |->
         init_ranges([i \in DOMAIN init_list |-> cache_positive_eval_fn(init_list[i])])]

\* Cache_List.update(key, item)
CacheUpdate(cache, key, item) ==
    [slots |-> [cache.slots EXCEPT ![key] = item],
     visited_ranges |-> update_ranges(cache.visited_ranges, key, visited_eval_fn(item)),
     positive_ranges |->
         update_ranges(cache.positive_ranges, key, cache_positive_eval_fn(item))]

AllUnknown == [f \in Frames |-> Unknown]

(***************************************************************************)
(* The persisted document (file_methods.Persistent_Dict at                 *)
(* rec_dir/square_marker_cache).  A slot is stored as false, [] or a list  *)
(* of argument tuples.                                                     *)
(***************************************************************************)
NoDocument ==
    [present |-> FALSE, version |-> DefaultVersion, cache |-> <<>>,
     inverted_markers |-> FALSE]

\* serialisation of one slot: list(self.marker_cache_unfiltered) written out
StoredSlot(slot) ==
    IF IsFalse(slot) THEN [known |-> FALSE, items |-> <<>>]
    ELSE [known |-> TRUE,
          items |-> [k \in 1 .. Len(slot.items) |-> MarkerArgs(slot.items[k])]]

\* a document written without the polarity, which then reads back as the
\* default
SavedDocumentWithoutPolarity(unfiltered, inverted) ==
    [present |-> TRUE,
     version |-> MARKER_CACHE_VERSION,
     cache |-> [k \in 1 .. NumFrames |-> StoredSlot(unfiltered.slots[k - 1])],
     inverted_markers |-> FALSE]

\* _save_marker_cache: the document written
SavedDocument(unfiltered, inverted) ==
    [present |-> TRUE,
     version |-> MARKER_CACHE_VERSION,
     cache |-> [k \in 1 .. NumFrames |-> StoredSlot(unfiltered.slots[k - 1])],
     inverted_markers |-> inverted]

\* a load that takes every falsy stored slot, the empty list included, as not
\* yet visited
LoadedSlotEmptyAsUnknown(stored) ==
    IF stored.known /\ Len(stored.items) > 0
    THEN [known |-> TRUE,
          items |-> [k \in 1 .. Len(stored.items) |->
                        Square_Marker_Detection(stored.items[k])]]
    ELSE [known |-> FALSE, items |-> <<>>]

\* _init_marker_cache, lines 125-135: a loaded slot is either False, [] or a
\* list of argument tuples, converted only when truthy
LoadedSlot(stored) ==
    IF stored.known /\ Len(stored.items) > 0
    THEN [known |-> TRUE,
          items |-> [k \in 1 .. Len(stored.items) |->
                        Square_Marker_Detection(stored.items[k])]]
    ELSE [known |-> stored.known, items |-> <<>>]

LoadedState(doc) == [f \in Frames |-> LoadedSlot(doc.cache[f + 1])]

(***************************************************************************)
(* Background tasks.  A task runs in a process of its own; the owner holds *)
(* a reference to it (ref), fetches what it queued and reads its completed *)
(* flag.                                                                   *)
(***************************************************************************)
NoProducer ==
    [ref |-> FALSE, state |-> "None", snapshot |-> {}, emitted |-> {},
     queue |-> <<>>, inverted |-> FALSE]

\* background_tasks.background_video_processor(source_path, callable,
\* visited_list, seek_idx): a frame is known when its entry of the starting
\* snapshot is not False
background_video_processor(inverted, visited_list) ==
    [ref |-> TRUE, state |-> "Running",
     snapshot |-> {f \in Frames : ~IsFalse(visited_list[f])},
     emitted |-> {}, queue |-> <<>>, inverted |-> inverted]

\* the frames a producer will not process: those known in its starting
\* snapshot and those it has processed
Visited(producer) == producer.snapshot \cup producer.emitted

\* the next frame at or after the seek index that the producer has not visited,
\* wrapping around at the end of the video
NextUnvisited(seek, visited) ==
    LET ahead == {f \in Frames : f >= seek /\ f \notin visited}
        behind == {f \in Frames : f < seek /\ f \notin visited}
    IN IF ahead # {} THEN CHOOSE f \in ahead : \A g \in ahead : f <= g
       ELSE CHOOSE f \in behind : \A g \in behind : f <= g

NoFiller == [ref |-> FALSE, state |-> "None", id |-> 0, produced |-> 0, pending |-> 0]

\* background_tasks.background_gaze_on_surface(surfaces, section, ...): yields
\* one result per surface
background_gaze_on_surface(id) ==
    [ref |-> TRUE, state |-> "Running", id |-> id, produced |-> 0, pending |-> 0]

\* task.cancel(): the task stops and releases its process
cancel(task) ==
    IF task.state = "Running" THEN [task EXCEPT !.state = "Cancelled"] ELSE task

\* the number of processes still running after the owner lets go of `task`
LeftRunning(task) == IF task.ref /\ task.state = "Running" THEN 1 ELSE 0

\* an accumulation buffer: None, or the list of the results fetched so far,
\* each <<filler id, position in the filler's output>>
NoneBuffer == [isNone |-> TRUE, items |-> <<>>]

\* try: buffer.append(x) except AttributeError: buffer = []; buffer.append(x)
BufferAppend(buffer, xs) == [isNone |-> FALSE, items |-> buffer.items \o xs]

\* what filler.fetch() returns: the results queued since the last fetch
Fetched(filler) ==
    [k \in 1 .. filler.pending |->
        <<filler.id, filler.produced - filler.pending + k>>]

(***************************************************************************)
(* Surface location caches: None, or one slot per frame ("U" not computed, *)
(* "N" computed and not detected, "D" detected).                           *)
(***************************************************************************)
NoLocationCache == [isNone |-> TRUE, slots |-> [f \in Frames |-> "U"]]

\* the location of a surface in a frame whose filtered markers are `slot`
Location(slot) ==
    IF IsFalse(slot) THEN "U" ELSE IF Len(slot.items) > 0 THEN "D" ELSE "N"

\* Surface_Offline.update_location_cache(frame_index, marker_cache, camera_model):
\* writes the slot of frame_index; an invalidated cache is first recomputed from
\* the frames the marker cache knows
update_location_cache(loc, frame_index, marker_cache) ==
    IF loc.isNone
    THEN [isNone |-> FALSE,
          slots |-> [f \in Frames |-> Location(marker_cache.slots[f])]]
    ELSE [loc EXCEPT !.slots[frame_index] = Location(marker_cache.slots[frame_index])]

(***************************************************************************)
(* State.                                                                  *)
(***************************************************************************)
VARIABLES
    inverted_markers,                 \* self.inverted_markers
    marker_min_perimeter,             \* self.marker_min_perimeter
    marker_cache_unfiltered,          \* self.marker_cache_unfiltered
    marker_cache,                     \* self.marker_cache (filtered)
    cache_seek_idx,                   \* self.cache_seek_idx.value
    cache_filler,                     \* self.cache_filler
    location_cache,                   \* surface.location_cache, per surface
    gaze_on_surf_buffer,              \* self.gaze_on_surf_buffer
    gaze_on_surf_buffer_filler,       \* self.gaze_on_surf_buffer_filler
    fixations_on_surf_buffer,         \* self.fixations_on_surf_buffer
    fixations_on_surf_buffer_filler,  \* self.fixations_on_surf_buffer_filler
    heatmap_update_requests,          \* self._heatmap_update_requests
    make_export,                      \* self.make_export
    since_update,                     \* time.time() - self.last_cache_update_ts
    disk,                             \* the persisted cache document
    running,                          \* processes running, per kind of task
    n_fills,                          \* fills whose results the buffers may hold
    raised,                           \* an exception left the last handler
    trace                             \* what the last handler did, in order

vars ==
    <<inverted_markers, marker_min_perimeter, marker_cache_unfiltered,
      marker_cache, cache_seek_idx, cache_filler, location_cache,
      gaze_on_surf_buffer, gaze_on_surf_buffer_filler,
      fixations_on_surf_buffer, fixations_on_surf_buffer_filler,
      heatmap_update_requests, make_export,
      since_update, disk, running, n_fills, raised, trace>>

\* the plugin object: its fields, with the model's bookkeeping
Self ==
    [inverted_markers |-> inverted_markers,
     marker_min_perimeter |-> marker_min_perimeter,
     marker_cache_unfiltered |-> marker_cache_unfiltered,
     marker_cache |-> marker_cache,
     cache_seek_idx |-> cache_seek_idx,
     cache_filler |-> cache_filler,
     location_cache |-> location_cache,
     gaze_on_surf_buffer |-> gaze_on_surf_buffer,
     gaze_on_surf_buffer_filler |-> gaze_on_surf_buffer_filler,
     fixations_on_surf_buffer |-> fixations_on_surf_buffer,
     fixations_on_surf_buffer_filler |-> fixations_on_surf_buffer_filler,
     heatmap_update_requests |-> heatmap_update_requests,
     make_export |-> make_export,
     since_update |-> since_update,
     disk |-> disk,
     running |-> running,
     n_fills |-> n_fills,
     raised |-> raised,
     save_ok |-> TRUE,
     trace |-> <<>>]

\* the state after a handler that leaves the object as `m`
Becomes(m) ==
    /\ inverted_markers' = m.inverted_markers
    /\ marker_min_perimeter' = m.marker_min_perimeter
    /\ marker_cache_unfiltered' = m.marker_cache_unfiltered
    /\ marker_cache' = m.marker_cache
    /\ cache_seek_idx' = m.cache_seek_idx
    /\ cache_filler' = m.cache_filler
    /\ location_cache' = m.location_cache
    /\ gaze_on_surf_buffer' = m.gaze_on_surf_buffer
    /\ gaze_on_surf_buffer_filler' = m.gaze_on_surf_buffer_filler
    /\ fixations_on_surf_buffer' = m.fixations_on_surf_buffer
    /\ fixations_on_surf_buffer_filler' = m.fixations_on_surf_buffer_filler
    /\ heatmap_update_requests' = m.heatmap_update_requests
    /\ make_export' = m.make_export
    /\ since_update' = m.since_update
    /\ disk' = m.disk
    /\ running' = m.running
    /\ n_fills' = m.n_fills
    /\ raised' = m.raised
    /\ trace' = m.trace

\* an entry of the trace
Ev(op, idx, arg) == [op |-> op, idx |-> idx, arg |-> arg]

Log(m, ev) == [m EXCEPT !.trace = Append(@, ev)]

\* the model's bounds on what a handler may leave behind
WithinBounds(m) ==
    /\ m.n_fills <= MaxFills
    /\ m.running.marker <= MaxOrphans + 1

(***************************************************************************)
(* The marker cache.                                                       *)
(***************************************************************************)
\* a re-filtering that takes a slot left without markers for a frame not visited
FilteredSlotEmptyAsUnknown(slot, min_perimeter) ==
    IF Truthy(slot)
    THEN IF filter_markers(slot.items, min_perimeter) = <<>> THEN Unknown
         ELSE Value(filter_markers(slot.items, min_perimeter))
    ELSE slot

\* _update_filtered_markers, lines 168-171: one slot of the filtered cache
FilteredSlot(slot, min_perimeter) ==
    IF Truthy(slot) THEN Value(filter_markers(slot.items, min_perimeter)) ELSE slot

\* _update_filtered_markers
\* a re-filtering that adds the filtered markers to what the filtered slot
\* already holds instead of starting from an empty list
UpdateFilteredAppending(m) ==
    [m EXCEPT !.marker_cache =
        Cache_List([f \in Frames |->
            IF Truthy(m.marker_cache_unfiltered.slots[f])
            THEN Value(m.marker_cache.slots[f].items
                         \o filter_markers(m.marker_cache_unfiltered.slots[f].items,
                                           m.marker_min_perimeter))
            ELSE m.marker_cache_unfiltered.slots[f]])]

update_filtered_markers(m) ==
    [m EXCEPT !.marker_cache =
        Cache_List([f \in Frames |->
            FilteredSlot(m.marker_cache_unfiltered.slots[f], m.marker_min_perimeter)])]

\* a producer started without the starting snapshot: it takes every frame as
\* not yet visited
StartProducerFromScratch(m) ==
    [m EXCEPT !.cache_filler =
                  background_video_processor(m.inverted_markers, AllUnknown),
              !.running.marker = @ + 1]

\* a replacement that hands the results the earlier producer had queued to the
\* new producer's queue
StartProducerKeepingQueue(m) ==
    [m EXCEPT !.cache_filler =
                  [background_video_processor(m.inverted_markers, m.marker_cache.slots)
                      EXCEPT !.queue = m.cache_filler.queue],
              !.running.marker = @ + 1]

\* _recalculate_marker_cache, lines 157-164: the producer replaces whatever
\* self.cache_filler referred to; its starting snapshot is list(self.marker_cache)
StartProducer(m) ==
    [m EXCEPT !.cache_filler =
                  background_video_processor(m.inverted_markers, m.marker_cache.slots),
              !.running.marker = @ + 1]

\* a rebuild that leaves the surfaces' location caches as they are
RecalculateKeepingLocations(m, has_previous, previous_state) ==
    LET state == IF has_previous THEN previous_state ELSE AllUnknown
    IN StartProducer(update_filtered_markers(
           [m EXCEPT !.marker_cache_unfiltered = Cache_List(state)]))

\* _recalculate_marker_cache(previous_state): has_previous is FALSE for None
recalculate_marker_cache(m, has_previous, previous_state) ==
    LET m1 == IF has_previous THEN m
              ELSE [m EXCEPT !.location_cache = [s \in Surfaces |-> NoLocationCache]]
        state == IF has_previous THEN previous_state ELSE AllUnknown
        m2 == [m1 EXCEPT !.marker_cache_unfiltered = Cache_List(state)]
    IN StartProducer(update_filtered_markers(m2))

\* an initialization that adopts the persisted polarity only after the rebuild
\* on a version mismatch, as the matching-version branch does
init_marker_cache_adopting_late(m) ==
    LET previous_cache == m.disk
    IN IF ~previous_cache.present
       THEN recalculate_marker_cache(Log(m, Ev("no_previous_cache", 0, 0)),
                                     FALSE, AllUnknown)
       ELSE IF previous_cache.version # MARKER_CACHE_VERSION
       THEN [recalculate_marker_cache(Log(m, Ev("version_mismatch", 0, 0)),
                                      FALSE, AllUnknown)
                EXCEPT !.inverted_markers = previous_cache.inverted_markers]
       ELSE Log([recalculate_marker_cache(m, TRUE, LoadedState(previous_cache))
                    EXCEPT !.inverted_markers = previous_cache.inverted_markers],
                Ev("restored_previous_cache", 0, 0))

\* _init_marker_cache
init_marker_cache(m) ==
    LET previous_cache == m.disk
    IN IF ~previous_cache.present
       THEN recalculate_marker_cache(Log(m, Ev("no_previous_cache", 0, 0)),
                                     FALSE, AllUnknown)
       ELSE IF previous_cache.version # MARKER_CACHE_VERSION
       THEN recalculate_marker_cache(
                [Log(m, Ev("version_mismatch", 0, 0))
                    EXCEPT !.inverted_markers = previous_cache.inverted_markers],
                FALSE, AllUnknown)
       ELSE Log([recalculate_marker_cache(m, TRUE, LoadedState(previous_cache))
                    EXCEPT !.inverted_markers = previous_cache.inverted_markers],
                Ev("restored_previous_cache", 0, 0))

\* file_methods.Persistent_Dict.save(): the document on disk afterwards; an I/O
\* failure is logged as a warning and leaves the earlier document
PersistentDictSave(document, written, save_ok) ==
    IF save_ok THEN written ELSE document

\* a save whose I/O failure leaves the handler as an exception
SaveMarkerCacheRaising(m) ==
    IF m.save_ok
    THEN Log([m EXCEPT !.disk = SavedDocument(m.marker_cache_unfiltered,
                                              m.inverted_markers)],
             Ev("save_marker_cache", 0, 0))
    ELSE [Log(m, Ev("save_failed", 0, 0)) EXCEPT !.raised = TRUE]

\* _save_marker_cache; save_ok: whether marker_cache_file.save() can write
save_marker_cache(m) ==
    Log([m EXCEPT !.disk =
             PersistentDictSave(@, SavedDocument(m.marker_cache_unfiltered,
                                                 m.inverted_markers),
                                m.save_ok)],
        Ev(IF m.save_ok THEN "save_marker_cache" ELSE "save_failed", 0, 0))

\* __init__(g_pool, marker_min_perimeter, inverted_markers) over the document
\* found on disk
Constructed(doc, min_perimeter, inverted) ==
    init_marker_cache(
        [inverted_markers |-> inverted,
         marker_min_perimeter |-> min_perimeter,
         marker_cache_unfiltered |-> Cache_List(AllUnknown),
         marker_cache |-> Cache_List(AllUnknown),
         cache_seek_idx |-> 0,
         cache_filler |-> NoProducer,
         location_cache |-> [s \in Surfaces |-> NoLocationCache],
         gaze_on_surf_buffer |-> NoneBuffer,
         gaze_on_surf_buffer_filler |-> NoFiller,
         fixations_on_surf_buffer |-> NoneBuffer,
         fixations_on_surf_buffer_filler |-> NoFiller,
         heatmap_update_requests |-> {},
         make_export |-> FALSE,
         since_update |-> 0,
         disk |-> doc,
         running |-> [marker |-> 0, gaze |-> 0, fixation |-> 0],
         n_fills |-> 0,
         raised |-> FALSE,
         save_ok |-> TRUE,
         trace |-> <<>>])

\* a document of an earlier cache version, whatever its contents
OldDocument(inverted) ==
    [present |-> TRUE, version |-> MARKER_CACHE_VERSION - 1,
     cache |-> [k \in 1 .. NumFrames |-> [known |-> FALSE, items |-> <<>>]],
     inverted_markers |-> inverted]

InitialDocuments == {NoDocument} \cup {OldDocument(b) : b \in BOOLEAN}

(***************************************************************************)
(* Buffer fillers.                                                         *)
(***************************************************************************)
\* a start that forgets to cancel the filler it replaces
CancelForgotten(filler) == filler

\* lines 336-337 and 349-350: `if filler is not None: filler.cancel()`
CancelIfPresent(filler) == IF filler.ref THEN cancel(filler) ELSE filler

\* _start_gaze_buffer_filler; the trace keeps the filler replaced (0: none) and
\* whether it was still running
start_gaze_buffer_filler(m) ==
    LET old == m.gaze_on_surf_buffer_filler
        stopped == CancelIfPresent(old)
    IN Log(Log([m EXCEPT !.gaze_on_surf_buffer_filler =
                             background_gaze_on_surface(m.n_fills),
                         !.running.gaze = @ - LeftRunning(old) + LeftRunning(stopped) + 1],
               Ev("replace_gaze_buffer_filler", old.id, LeftRunning(old))),
           Ev("start_gaze_buffer_filler", m.n_fills, 0))

\* _start_fixation_buffer_filler
start_fixation_buffer_filler(m) ==
    LET old == m.fixations_on_surf_buffer_filler
        stopped == CancelIfPresent(old)
    IN Log(Log([m EXCEPT !.fixations_on_surf_buffer_filler =
                             background_gaze_on_surface(m.n_fills),
                         !.running.fixation =
                             @ - LeftRunning(old) + LeftRunning(stopped) + 1],
               Ev("replace_fixation_buffer_filler", old.id, LeftRunning(old))),
           Ev("start_fixation_buffer_filler", m.n_fills, 0))

\* the number that tells the results of the next fill from those the buffers
\* hold; with both buffers None nothing is left of the earlier fills
NextFill(m) ==
    IF m.gaze_on_surf_buffer.isNone /\ m.fixations_on_surf_buffer.isNone
    THEN 1 ELSE m.n_fills + 1

\* _fill_gaze_on_surf_buffer
fill_gaze_on_surf_buffer(m) ==
    LET m1 == start_gaze_buffer_filler([m EXCEPT !.n_fills = NextFill(m)])
    IN IF m1.make_export THEN start_fixation_buffer_filler(m1) ELSE m1

(***************************************************************************)
(* The owner's tick: draining the producer.                                *)
(***************************************************************************)
RECURSIVE UpdateSurfaces(_, _, _)
\* lines 251-254: for surface in self.surfaces: surface.update_location_cache(...)
UpdateSurfaces(m, frame_index, s) ==
    IF s > NumSurfaces THEN m
    ELSE UpdateSurfaces(
             Log([m EXCEPT !.location_cache[s] =
                      update_location_cache(@, frame_index, m.marker_cache)],
                 Ev("update_location_cache", frame_index, s)),
             frame_index, s + 1)

\* a drain loop body that updates the surfaces before it writes the filtered
\* cache
ApplyFetchedSurfacesFirst(m, frame_index, detected) ==
    LET deduplicated == remove_duplicate_markers(detected)
        m1 == Log([m EXCEPT !.marker_cache_unfiltered =
                       CacheUpdate(@, frame_index, Value(deduplicated))],
                  Ev("update_unfiltered", frame_index, 0))
        m2 == UpdateSurfaces(m1, frame_index, 1)
        markers_filtered == filter_markers(deduplicated, m.marker_min_perimeter)
    IN Log([m2 EXCEPT !.marker_cache =
                CacheUpdate(@, frame_index, Value(markers_filtered))],
           Ev("update_filtered", frame_index, 0))

\* lines 246-254: the body of the drain loop for one fetched pair
ApplyFetched(m, frame_index, detected) ==
    LET deduplicated == remove_duplicate_markers(detected)
        m1 == Log([m EXCEPT !.marker_cache_unfiltered =
                       CacheUpdate(@, frame_index, Value(deduplicated))],
                  Ev("update_unfiltered", frame_index, 0))
        markers_filtered == filter_markers(deduplicated, m.marker_min_perimeter)
        m2 == Log([m1 EXCEPT !.marker_cache =
                       CacheUpdate(@, frame_index, Value(markers_filtered))],
                  Ev("update_filtered", frame_index, 0))
    IN UpdateSurfaces(m2, frame_index, 1)

\* a drain that applies the first fetched pair and drops the others
DrainFirstOnly(m, fetched) ==
    IF fetched = <<>> THEN m
    ELSE ApplyFetched(m, fetched[1][1], fetched[1][2])

RECURSIVE DrainProducer(_, _)
\* lines 245-254: for frame_index, markers in self.cache_filler.fetch()
DrainProducer(m, fetched) ==
    IF fetched = <<>> THEN m
    ELSE DrainProducer(ApplyFetched(m, fetched[1][1], fetched[1][2]), Tail(fetched))

RECURSIVE RequestAll(_, _)
\* lines 258-259: for surface in self.surfaces: requests.add(surface)
RequestAll(m, s) ==
    IF s > NumSurfaces THEN m
    ELSE RequestAll(Log([m EXCEPT !.heatmap_update_requests = @ \cup {s}],
                        Ev("request_heatmap", s, 0)),
                    s + 1)

\* a completion that keeps the reference to the completed producer
CompletedYetKept(m) ==
    Log(save_marker_cache(fill_gaze_on_surf_buffer(RequestAll(m, 1))),
        Ev("save_surface_definitions", 0, 0))

\* lines 256-262: what the owner does on seeing the producer completed
OnProducerCompleted(m) ==
    LET m1 == Log([m EXCEPT !.cache_filler = NoProducer], Ev("discard_producer", 0, 0))
        m2 == RequestAll(m1, 1)
        m3 == fill_gaze_on_surf_buffer(m2)
        m4 == save_marker_cache(m3)
    IN Log(m4, Ev("save_surface_definitions", 0, 0))

\* a save on every tick of an active producer, whatever time has passed
DebouncedSaveEveryTick(m) ==
    [Log(save_marker_cache(m), Ev("debounced", 0, 0)) EXCEPT !.since_update = 0]

\* lines 264-267: the time-debounced save
DebouncedSave(m) ==
    IF m.since_update > CACHE_UPDATE_INTERVAL_SEC
    THEN [Log(save_marker_cache(m), Ev("debounced", 0, 0)) EXCEPT !.since_update = 0]
    ELSE m

\* a tick that drains the producer and never looks at its completed flag
UpdateCachesWithoutCompletion(m) ==
    IF ~m.cache_filler.ref THEN m
    ELSE DebouncedSave(DrainProducer([m EXCEPT !.cache_filler.queue = <<>>],
                                     m.cache_filler.queue))

\* _update_marker_and_surface_caches
update_marker_and_surface_caches(m) ==
    IF ~m.cache_filler.ref THEN m
    ELSE LET m1 == DrainProducer([m EXCEPT !.cache_filler.queue = <<>>],
                                 m.cache_filler.queue)
             m2 == IF m1.cache_filler.state = "Completed"
                   THEN OnProducerCompleted(m1) ELSE m1
         IN DebouncedSave(m2)

\* how the trace shows a value given to self.markers: -1 for False, else the
\* length of the list
Shown(slot) == IF IsFalse(slot) THEN -1 ELSE Len(slot.items)

\* a marker update that moves the seek index to the current frame whether or
\* not the frame is cached
UpdateMarkersSeekingAlways(m, frame_index) ==
    LET m1 == update_marker_and_surface_caches(m)
        found == m1.marker_cache.slots[frame_index]
        found_unfiltered == m1.marker_cache_unfiltered.slots[frame_index]
        shown == IF IsFalse(found) THEN Value(<<>>) ELSE found
        shown_unfiltered == IF IsFalse(found) THEN Value(<<>>) ELSE found_unfiltered
    IN [Log(Log(m1, Ev("markers", frame_index, Shown(shown))),
            Ev("markers_unfiltered", frame_index, Shown(shown_unfiltered)))
           EXCEPT !.cache_seek_idx = frame_index]

\* _update_markers(frame): self.markers and self.markers_unfiltered are only
\* written here, so the trace keeps what they were given
update_markers(m, frame_index) ==
    LET m1 == update_marker_and_surface_caches(m)
        found == m1.marker_cache.slots[frame_index]
        found_unfiltered == m1.marker_cache_unfiltered.slots[frame_index]
    IN IF IsFalse(found)
       THEN [Log(Log(m1, Ev("markers", frame_index, Shown(Value(<<>>)))),
                 Ev("markers_unfiltered", frame_index, Shown(Value(<<>>))))
                EXCEPT !.cache_seek_idx = frame_index]
       ELSE Log(Log(m1, Ev("markers", frame_index, Shown(found))),
                Ev("markers_unfiltered", frame_index, Shown(found_unfiltered)))

(***************************************************************************)
(* The owner's tick: the buffer fillers, the heatmaps and the export.      *)
(***************************************************************************)
\* the filler a buffer entry was fetched from
Source(buffer, k) == buffer.items[k][1]

RECURSIVE AcrossSurfaces(_, _)
\* _compute_across_surfaces_heatmap: zip(self.surfaces, one count per buffer entry)
AcrossSurfaces(m, s) ==
    IF s > NumSurfaces \/ s > Len(m.gaze_on_surf_buffer.items) THEN m
    ELSE AcrossSurfaces(
             Log(m, Ev("across_surface_heatmap", s, Source(m.gaze_on_surf_buffer, s))),
             s + 1)

RECURSIVE WithinSurfaces(_, _)
\* lines 287-291: surface.update_heatmap(self.gaze_on_surf_buffer[surf_idx])
WithinSurfaces(m, s) ==
    IF s > NumSurfaces THEN m
    ELSE WithinSurfaces(
             IF s \in m.heatmap_update_requests
             THEN Log(m, Ev("update_heatmap", s, Source(m.gaze_on_surf_buffer, s)))
             ELSE m,
             s + 1)

\* _update_surface_heatmaps
update_surface_heatmaps(m) ==
    [WithinSurfaces(AcrossSurfaces(m, 1), 1) EXCEPT !.heatmap_update_requests = {}]

\* surface.visible_count_in_section(section), over the whole video
VisibleCount(loc) == Cardinality({f \in Frames : loc.slots[f] = "D"})

RECURSIVE export_surface_visibility(_, _)
\* _export_surface_visibility: one row per surface, up to the first surface
\* without a location cache
export_surface_visibility(m, s) ==
    IF s > NumSurfaces THEN m
    ELSE IF m.location_cache[s].isNone
    THEN Log(m, Ev("visibility_not_cached", s, 0))
    ELSE export_surface_visibility(
             Log(m, Ev("visibility_row", s, VisibleCount(m.location_cache[s]))),
             s + 1)

\* _export_surface_events: reads surface.location_cache.positive_ranges of every
\* surface; None has no such attribute
export_surface_events(m) ==
    IF \E s \in Surfaces : m.location_cache[s].isNone
    THEN [Log(m, Ev("AttributeError", 0, 0)) EXCEPT !.raised = TRUE]
    ELSE Log(m, Ev("surface_events", 0, 0))

\* an export that finds out about the directory only after the visibility
\* report
ExportCheckingDirectoryLate(m, dir_ok) ==
    LET m1 == export_surface_visibility(m, 1)
    IN IF ~dir_ok THEN Log(m1, Ev("export_aborted", 0, 0))
       ELSE LET m2 == Log(m1, Ev("gaze_distribution", 0, 0))
                m3 == export_surface_events(m2)
            IN IF m3.raised THEN m3
               ELSE [Log(m3, Ev("export_done", 0, 0)) EXCEPT !.make_export = FALSE]

\* save_surface_statisics_to_file; dir_ok: the metrics directory exists or
\* could be made
save_surface_statisics_to_file(m, dir_ok) ==
    IF ~dir_ok THEN Log(m, Ev("export_aborted", 0, 0))
    ELSE LET m1 == export_surface_visibility(m, 1)
             m2 == Log(m1, Ev("gaze_distribution", 0, 0))
             m3 == export_surface_events(m2)
         IN IF m3.raised THEN m3
            ELSE [Log(m3, Ev("export_done", 0, 0)) EXCEPT !.make_export = FALSE]

\* a completion that lets go of the gaze filler and keeps the reference to the
\* fixation filler
OnFillersCompletedKeepingFixation(m, dir_ok) ==
    LET m1 == Log([m EXCEPT !.gaze_on_surf_buffer_filler = NoFiller],
                  Ev("fillers_completed", m.gaze_on_surf_buffer_filler.id,
                     IF m.fixations_on_surf_buffer_filler.ref THEN 1 ELSE 0))
        m2 == update_surface_heatmaps(m1)
        m3 == IF m2.make_export THEN save_surface_statisics_to_file(m2, dir_ok) ELSE m2
    IN IF m3.raised THEN m3
       ELSE [m3 EXCEPT !.gaze_on_surf_buffer = NoneBuffer,
                       !.fixations_on_surf_buffer = NoneBuffer,
                       !.n_fills = 0]

\* lines 217-228: all background processes are completed
OnFillersCompleted(m, dir_ok) ==
    LET m1 == Log([m EXCEPT !.gaze_on_surf_buffer_filler = NoFiller,
                            !.fixations_on_surf_buffer_filler = NoFiller],
                  Ev("fillers_completed", m.gaze_on_surf_buffer_filler.id,
                     IF m.fixations_on_surf_buffer_filler.ref THEN 1 ELSE 0))
        m2 == update_surface_heatmaps(m1)
        m3 == IF m2.make_export THEN save_surface_statisics_to_file(m2, dir_ok) ELSE m2
    IN IF m3.raised THEN m3
       ELSE [m3 EXCEPT !.gaze_on_surf_buffer = NoneBuffer,
                       !.fixations_on_surf_buffer = NoneBuffer,
                       !.n_fills = 0]

\* lines 201-206 and 210-215: `for x in filler.fetch(): buffer.append(x)`
FetchInto(buffer, filler) ==
    IF filler.pending = 0 THEN buffer ELSE BufferAppend(buffer, Fetched(filler))

\* lines 218-221: the condition under which the heatmaps are recomputed
AllFillersCompleted(gaze, fixations) ==
    gaze.state = "Completed" /\ (~fixations.ref \/ fixations.state = "Completed")

\* _fetch_data_from_bg_fillers
fetch_data_from_bg_fillers(m, dir_ok) ==
    IF ~m.gaze_on_surf_buffer_filler.ref THEN m
    ELSE LET m1 == [m EXCEPT !.gaze_on_surf_buffer =
                                 FetchInto(@, m.gaze_on_surf_buffer_filler),
                             !.gaze_on_surf_buffer_filler.pending = 0]
             m2 == IF m1.fixations_on_surf_buffer_filler.ref
                   THEN [m1 EXCEPT !.fixations_on_surf_buffer =
                                       FetchInto(@, m1.fixations_on_surf_buffer_filler),
                                   !.fixations_on_surf_buffer_filler.pending = 0]
                   ELSE m1
         IN IF AllFillersCompleted(m2.gaze_on_surf_buffer_filler,
                                   m2.fixations_on_surf_buffer_filler)
            THEN OnFillersCompleted(m2, dir_ok)
            ELSE m2

\* recent_events(events): the base class updates the markers for the current
\* frame, then the fillers are polled
recent_events(m, frame_index, dir_ok) ==
    fetch_data_from_bg_fillers(update_markers(m, frame_index), dir_ok)

(***************************************************************************)
(* Notifications (on_notify) and callbacks, as operators on the object.    *)
(***************************************************************************)
\* lines 436-440, 450-455: the surface whose name the notification carries, if
\* any, is added to the requests
RequestNamed(m, name) ==
    IF name \in Surfaces
    THEN Log([m EXCEPT !.heatmap_update_requests = @ \cup {name}],
             Ev("request_heatmap", name, 0))
    ELSE m

\* how many frames the unfiltered cache has computed when a handler starts
KnownFrames(m) ==
    Cardinality({f \in Frames : ~IsFalse(m.marker_cache_unfiltered.slots[f])})

\* what a handler finds in self.cache_filler: 0 None, 1 a running producer,
\* 2 a completed one
ProducerSeen(m) ==
    IF ~m.cache_filler.ref THEN 0
    ELSE IF m.cache_filler.state = "Completed" THEN 2 ELSE 1

\* "surface_tracker.marker_detection_params_changed", sent after the polarity
\* was set to `inverted`
marker_detection_params_changed(m, inverted) ==
    recalculate_marker_cache(
        [Log(m, Ev("marker_detection_params_changed", KnownFrames(m), ProducerSeen(m)))
            EXCEPT !.inverted_markers = inverted],
        FALSE, AllUnknown)

\* a threshold change that invalidates the surfaces and leaves the filtered
\* cache as it was
PerimeterChangedWithoutRefilter(m, min_perimeter) ==
    [Log(m, Ev("marker_min_perimeter_changed", min_perimeter, 0))
        EXCEPT !.marker_min_perimeter = min_perimeter,
               !.location_cache = [s \in Surfaces |-> NoLocationCache]]

\* "surface_tracker.marker_min_perimeter_changed", sent after the threshold was
\* set to `min_perimeter`
marker_min_perimeter_changed(m, min_perimeter) ==
    [update_filtered_markers(
         [Log(m, Ev("marker_min_perimeter_changed", min_perimeter, 0))
             EXCEPT !.marker_min_perimeter = min_perimeter])
        EXCEPT !.location_cache = [s \in Surfaces |-> NoLocationCache]]

\* "surface_tracker.heatmap_params_changed"
heatmap_params_changed(m, name) == fill_gaze_on_surf_buffer(RequestNamed(m, name))

\* "seek_control.trim_indices_changed"
trim_indices_changed(m) == fill_gaze_on_surf_buffer(RequestAll(m, 1))

\* a surfaces_changed handler that asks for the heatmap and leaves the location
\* cache of the surface as it is
SurfacesChangedKeepingLocation(m, name) ==
    fill_gaze_on_surf_buffer(RequestNamed(Log(m, Ev("surfaces_changed", name, 0)), name))

\* "surface_tracker.surfaces_changed"
surfaces_changed(m, name) ==
    LET m1 == Log(m, Ev("surfaces_changed", name, 0))
    IN fill_gaze_on_surf_buffer(
           RequestNamed(
               IF name \in Surfaces
               THEN [m1 EXCEPT !.location_cache[name] = NoLocationCache] ELSE m1,
               name))

\* "should_export"
should_export(m) == fill_gaze_on_surf_buffer([m EXCEPT !.make_export = TRUE])

\* "gaze_positions_changed"
gaze_positions_changed(m) == fill_gaze_on_surf_buffer(RequestAll(m, 1))

\* on_surface_change(surface)
on_surface_change(m, surface) ==
    fill_gaze_on_surf_buffer(
        RequestNamed(Log(Log(m, Ev("on_surface_change", surface, 0)),
                         Ev("save_surface_definitions", 0, 0)),
                     surface))

\* cleanup()
cleanup(m) == save_marker_cache(m)

(***************************************************************************)
(* Actions.                                                                *)
(***************************************************************************)
\* names a notification can carry: a surface, or 0 for none of them
Names == Surfaces \cup {0}

Handler(m) == WithinBounds(m) /\ Becomes(m)

RecentEvents ==
    /\ ~raised
    /\ \E frame_index \in Frames, dir_ok \in BOOLEAN :
          Handler(recent_events(Self, frame_index, dir_ok))

NotifyDetectionParams ==
    /\ ~raised
    /\ \E inverted \in BOOLEAN : Handler(marker_detection_params_changed(Self, inverted))

NotifyMinPerimeter ==
    /\ ~raised
    /\ \E p \in Perimeters : Handler(marker_min_perimeter_changed(Self, p))

NotifyHeatmapParams ==
    /\ ~raised
    /\ \E name \in Names : Handler(heatmap_params_changed(Self, name))

NotifyTrimIndices ==
    /\ ~raised
    /\ Handler(trim_indices_changed(Self))

NotifySurfacesChanged ==
    /\ ~raised
    /\ \E name \in Names : Handler(surfaces_changed(Self, name))

NotifyShouldExport ==
    /\ ~raised
    /\ Handler(should_export(Self))

NotifyGazePositions ==
    /\ ~raised
    /\ Handler(gaze_positions_changed(Self))

OnSurfaceChange ==
    /\ ~raised
    /\ \E s \in Surfaces : Handler(on_surface_change(Self, s))

\* the plugin is cleaned up and built again over the document it left
Restart ==
    /\ ~raised
    /\ \E p \in Perimeters, inverted \in BOOLEAN :
          Handler(Constructed(cleanup(Self).disk, p, inverted))

\* time passes: up to the interval, then beyond it
\* a tick during which the cache file cannot be written
RecentEventsSaveFailing ==
    /\ ~raised
    /\ \E frame_index \in Frames, dir_ok \in BOOLEAN :
          Handler(recent_events([Self EXCEPT !.save_ok = FALSE], frame_index, dir_ok))

\* a shutdown during which the cache file cannot be written, and the next
\* construction
RestartSaveFailing ==
    /\ ~raised
    /\ \E p \in Perimeters, inverted \in BOOLEAN :
          LET closed == cleanup([Self EXCEPT !.save_ok = FALSE])
          IN Handler([Constructed(closed.disk, p, inverted)
                         EXCEPT !.trace = closed.trace \o @])

Tock ==
    /\ ~raised
    /\ since_update <= CACHE_UPDATE_INTERVAL_SEC
    /\ Becomes([Self EXCEPT !.since_update =
                    IF @ < CACHE_UPDATE_INTERVAL_SEC
                    THEN CACHE_UPDATE_INTERVAL_SEC ELSE @ + 1])

\* the producer processes the next unvisited frame and queues the result
ProducerStep ==
    /\ ~raised
    /\ cache_filler.ref /\ cache_filler.state = "Running"
    /\ Visited(cache_filler) # Frames
    /\ LET f == NextUnvisited(cache_seek_idx, Visited(cache_filler))
           result == marker_detection_callable(CACHE_MIN_MARKER_PERIMETER,
                                               cache_filler.inverted, f)
       IN Becomes([Self EXCEPT !.cache_filler.emitted = @ \cup {f},
                               !.cache_filler.queue = Append(@, <<f, result>>)])

\* the producer finds no unvisited frame left and completes
ProducerFinish ==
    /\ ~raised
    /\ cache_filler.ref /\ cache_filler.state = "Running"
    /\ Visited(cache_filler) = Frames
    /\ Becomes([Self EXCEPT !.cache_filler.state = "Completed",
                            !.running.marker = @ - 1])

\* a producer the owner holds no reference to runs to its end
OrphanExit ==
    /\ ~raised
    /\ running.marker > LeftRunning(cache_filler)
    /\ Becomes([Self EXCEPT !.running.marker = @ - 1])

\* one step of a filler: the next result, or completion after the last
FillerStep(filler) ==
    IF filler.produced < NumSurfaces
    THEN [filler EXCEPT !.produced = @ + 1, !.pending = @ + 1]
    ELSE [filler EXCEPT !.state = "Completed"]

GazeFillerStep ==
    /\ ~raised
    /\ gaze_on_surf_buffer_filler.ref /\ gaze_on_surf_buffer_filler.state = "Running"
    /\ LET next == FillerStep(gaze_on_surf_buffer_filler)
       IN Becomes([Self EXCEPT !.gaze_on_surf_buffer_filler = next,
                               !.running.gaze = @ - 1 + LeftRunning(next)])

FixationFillerStep ==
    /\ ~raised
    /\ fixations_on_surf_buffer_filler.ref
    /\ fixations_on_surf_buffer_filler.state = "Running"
    /\ LET next == FillerStep(fixations_on_surf_buffer_filler)
       IN Becomes([Self EXCEPT !.fixations_on_surf_buffer_filler = next,
                               !.running.fixation = @ - 1 + LeftRunning(next)])

\* the state after construction as `m`
Starts(m) ==
           /\ inverted_markers = m.inverted_markers
           /\ marker_min_perimeter = m.marker_min_perimeter
           /\ marker_cache_unfiltered = m.marker_cache_unfiltered
           /\ marker_cache = m.marker_cache
           /\ cache_seek_idx = m.cache_seek_idx
           /\ cache_filler = m.cache_filler
           /\ location_cache = m.location_cache
           /\ gaze_on_surf_buffer = m.gaze_on_surf_buffer
           /\ gaze_on_surf_buffer_filler = m.gaze_on_surf_buffer_filler
           /\ fixations_on_surf_buffer = m.fixations_on_surf_buffer
           /\ fixations_on_surf_buffer_filler = m.fixations_on_surf_buffer_filler
           /\ heatmap_update_requests = m.heatmap_update_requests
           /\ make_export = m.make_export
           /\ since_update = m.since_update
           /\ disk = m.disk
           /\ running = m.running
           /\ n_fills = m.n_fills
           /\ raised = m.raised
           /\ trace = m.trace

Init ==
    \E doc \in InitialDocuments, p \in Perimeters, inverted \in BOOLEAN :
        Starts(Constructed(doc, p, inverted))

\* started with the constructor's defaults on a recording without a document
InitDefaults == Starts(Constructed(NoDocument, DefaultMinPerimeter, FALSE))

Next ==
    \/ RecentEvents
    \/ NotifyDetectionParams
    \/ NotifyMinPerimeter
    \/ NotifyHeatmapParams
    \/ NotifyTrimIndices
    \/ NotifySurfacesChanged
    \/ NotifyShouldExport
    \/ NotifyGazePositions
    \/ OnSurfaceChange
    \/ Restart
    \/ RecentEventsSaveFailing
    \/ RestartSaveFailing
    \/ Tock
    \/ ProducerStep
    \/ ProducerFinish
    \/ OrphanExit
    \/ GazeFillerStep
    \/ FixationFillerStep

\* the whole program
Spec == Init /\ [][Next]_vars

(***************************************************************************)
(* The specifications the properties are stated for.  Each takes the      *)
(* same initial states and a part of the actions; every handler is still   *)
(* the whole handler.                                                      *)
(*                                                                         *)
(* SpecMarkers: the marker cache pipeline.  The producer, the ticks, the   *)
(* two notifications that touch the marker caches, restarts and time; the  *)
(* gaze filler started on completion is polled and has not yet produced,   *)
(* no other notification arrives.  No action left out writes a marker      *)
(* cache, the producer, the seek index or the document.                    *)
(*                                                                         *)
(* SpecFillers: the buffer fillers, from a start with the constructor's    *)
(* defaults and no document.  The first production, the ticks, both        *)
(* fillers and every notification that starts a filler; no rebuild, no     *)
(* restart, and no time passes.                                            *)
(***************************************************************************)
NextMarkers ==
    \/ RecentEvents
    \/ NotifyDetectionParams
    \/ NotifyMinPerimeter
    \/ Restart
    \/ Tock
    \/ ProducerStep
    \/ ProducerFinish
    \/ OrphanExit

SpecMarkers == Init /\ [][NextMarkers]_vars

NextFillers ==
    \/ RecentEvents
    \/ NotifyHeatmapParams
    \/ NotifyTrimIndices
    \/ NotifySurfacesChanged
    \/ NotifyShouldExport
    \/ NotifyGazePositions
    \/ OnSurfaceChange
    \/ ProducerStep
    \/ ProducerFinish
    \/ GazeFillerStep
    \/ FixationFillerStep

SpecFillers == InitDefaults /\ [][NextFillers]_vars

\* SpecProduction: production from any initial document with no further
\* rebuild: ticks at any frame (each may move the seek index), changes of the
\* minimum perimeter, the clock and the producer.  The tick is scheduled again
\* and again by the application's main loop and the producer runs in a process
\* of its own, hence weak fairness on the tick and on the producer's steps.
\* A tick at another frame than the last always changes the state, so the tick
\* is enabled throughout and weak fairness on it is that ticks keep happening.
NextProduction ==
    \/ RecentEvents
    \/ NotifyMinPerimeter
    \/ Tock
    \/ ProducerStep
    \/ ProducerFinish

SpecProduction ==
    /\ Init
    /\ [][NextProduction]_vars
    /\ []<><<RecentEvents>>_vars
    /\ WF_vars(ProducerStep)
    /\ WF_vars(ProducerFinish)

\* SpecCacheList: the range bookkeeping of Cache_List on its own.  The
\* unfiltered cache is a Cache_List built (lines 152-154) from any list of
\* CacheLen slots and then updated at any index with any item, overwrites
\* included; the trace keeps the index and what the slot held before
\* (0 Unknown, 1 Empty, 2 Value).
SlotValues == {Unknown, Value(<<>>), Value(<<BigMarker>>)}

SlotKind(slot) == IF IsFalse(slot) THEN 0 ELSE IF Len(slot.items) = 0 THEN 1 ELSE 2

InitCacheList ==
    \E init_list \in [0 .. (CacheLen - 1) -> SlotValues] :
        Starts([Constructed(NoDocument, DefaultMinPerimeter, FALSE)
                   EXCEPT !.marker_cache_unfiltered = Cache_List(init_list)])

CacheListUpdate ==
    /\ ~raised
    /\ \E key \in 0 .. (CacheLen - 1), item \in SlotValues :
        Becomes(Log([Self EXCEPT !.marker_cache_unfiltered = CacheUpdate(@, key, item)],
                    Ev("update", key, SlotKind(marker_cache_unfiltered.slots[key]))))

SpecCacheList == InitCacheList /\ [][CacheListUpdate]_vars

\* SpecSaveFaults: the marker cache side with saves that fail.
NextSaveFaults ==
    \/ NextMarkers
    \/ RecentEventsSaveFailing
    \/ RestartSaveFailing

SpecSaveFaults == InitDefaults /\ [][NextSaveFaults]_vars

\* SpecInvalidation: what invalidates a surface's location cache.  The first
\* production and the ticks fill the location caches; the two marker
\* notifications, surfaces_changed and the on_surface_change callback arrive in
\* any order.  The fillers they start do not run here.
NextInvalidation ==
    \/ RecentEvents
    \/ NotifyDetectionParams
    \/ NotifyMinPerimeter
    \/ NotifySurfacesChanged
    \/ OnSurfaceChange
    \/ ProducerStep
    \/ ProducerFinish
    \/ OrphanExit

SpecInvalidation == InitDefaults /\ [][NextInvalidation]_vars

(***************************************************************************)
(* Properties.                                                             *)
(***************************************************************************)
\* the last handler did `op`
Did(op) == \E k \in DOMAIN trace : trace[k].op = op

\* C1: at most one marker producer is running at any time: a rebuild cancels
\* and discards the earlier producer before it starts the new one.
C1_SingleProducer == running.marker <= 1

\* C2: for each kind of event (gaze, fixation) at most one buffer filler is
\* running at any time, and it is the one the owner refers to: a filler that is
\* replaced was cancelled first.
C2_SingleFillerPerKind ==
    /\ running.gaze <= 1
    /\ running.fixation <= 1
    /\ running.gaze = LeftRunning(gaze_on_surf_buffer_filler)
    /\ running.fixation = LeftRunning(fixations_on_surf_buffer_filler)

\* C2, witness: a gaze filler that was still running has just been replaced
C2_ReplacedWhileRunning ==
    /\ \E k \in DOMAIN trace :
          trace[k].op = "replace_gaze_buffer_filler" /\ trace[k].arg = 1
    /\ gaze_on_surf_buffer_filler.state = "Running"
    /\ running.gaze = 1

\* C3: when the heatmaps are recomputed on completion, every buffer entry they
\* are computed from was fetched from the filler that completed, never from a
\* filler that was replaced.
C3_HeatmapFromCompletedFiller ==
    \A i, j \in DOMAIN trace :
        (/\ trace[i].op = "fillers_completed"
         /\ trace[j].op \in {"update_heatmap", "across_surface_heatmap"})
        => trace[j].arg = trace[i].idx

\* C4: the heatmap recompute (and the export) happens only in a tick in which
\* the gaze filler is completed, and the fixation filler if there is one; in
\* that tick both filler references are discarded and both buffers released.
C4_CompletionTick ==
    [][Did("fillers_completed")' =>
          /\ AllFillersCompleted(gaze_on_surf_buffer_filler,
                                 fixations_on_surf_buffer_filler)
          /\ ~gaze_on_surf_buffer_filler'.ref
          /\ ~fixations_on_surf_buffer_filler'.ref
          /\ gaze_on_surf_buffer'.isNone
          /\ fixations_on_surf_buffer'.isNone]_vars

\* the frames of the pairs waiting in a producer's queue
Queued(producer) == {producer.queue[q][1] : q \in DOMAIN producer.queue}

\* C5: a producer resumed from a document of the current version starts from a
\* snapshot that knows exactly the frames the persisted unfiltered cache has
\* computed; a producer never emits a frame its snapshot or the unfiltered cache
\* knows, emits no frame twice, and when it completes every frame the snapshot
\* did not know was emitted, wherever the seek index was moved.
C5_ResumeFromSnapshot ==
    /\ Did("restored_previous_cache") =>
          /\ cache_filler.ref /\ cache_filler.state = "Running"
          /\ cache_filler.snapshot = {f \in Frames : disk.cache[f + 1].known}
          /\ cache_filler.emitted = {}
          /\ cache_filler.queue = <<>>
    /\ cache_filler.ref =>
          /\ \A q \in DOMAIN cache_filler.queue :
                LET f == cache_filler.queue[q][1]
                IN /\ f \notin cache_filler.snapshot
                   /\ IsFalse(marker_cache_unfiltered.slots[f])
                   /\ \A r \in DOMAIN cache_filler.queue :
                         cache_filler.queue[r][1] = f => r = q
          /\ \A f \in cache_filler.snapshot : ~IsFalse(marker_cache_unfiltered.slots[f])
          /\ cache_filler.state = "Completed" =>
                \A f \in Frames \ cache_filler.snapshot :
                    f \in Queued(cache_filler) \/ ~IsFalse(marker_cache_unfiltered.slots[f])

\* C5, witness: a producer resumed from a partly filled document has emitted
\* the frames its snapshot did not know and completed
C5_ResumedAndCompleted ==
    /\ cache_filler.ref /\ cache_filler.state = "Completed"
    /\ cache_filler.snapshot # {}
    /\ cache_filler.emitted = Frames \ cache_filler.snapshot
    /\ cache_filler.emitted # {}
    /\ \A f \in cache_filler.snapshot : disk.cache[f + 1].known

\* C6: without a document, or with a document of another version, both marker
\* caches start with every frame unknown and a fresh producer is running over
\* the whole video; on a version mismatch the polarity is the persisted one and
\* the producer detects with it.
C6_FullRebuildOnLoad ==
    /\ (Did("no_previous_cache") \/ Did("version_mismatch")) =>
          /\ \A f \in Frames : /\ IsFalse(marker_cache_unfiltered.slots[f])
                               /\ IsFalse(marker_cache.slots[f])
          /\ marker_cache_unfiltered.visited_ranges = <<>>
          /\ marker_cache.visited_ranges = <<>>
          /\ cache_filler.ref /\ cache_filler.state = "Running"
          /\ cache_filler.snapshot = {}
          /\ cache_filler.emitted = {}
          /\ cache_filler.queue = <<>>
          /\ running.marker = 1
    /\ Did("version_mismatch") =>
          /\ disk.present /\ disk.version # MARKER_CACHE_VERSION
          /\ inverted_markers = disk.inverted_markers
          /\ cache_filler.inverted = disk.inverted_markers
    /\ Did("no_previous_cache") => ~disk.present

\* C6, witness: started over a document of an earlier version that was made
\* with inverted markers
C6_MismatchAdoptsInverted ==
    /\ Did("version_mismatch")
    /\ disk.inverted_markers
    /\ cache_filler.inverted
    /\ cache_filler.state = "Running"

\* the members of a sequence
Members(l) == {l[k] : k \in DOMAIN l}

\* no member of the sequence occurs in it twice
Distinct(l) == \A j, k \in DOMAIN l : l[j] = l[k] => j = k

\* the markers of a list that are at least `min_perimeter` around, in order
AtLeast(l, min_perimeter) == SelectSeq(l, LAMBDA d : d.perimeter >= min_perimeter)

\* C7: for every pair (index, detections) the tick drains from the producer,
\* in this order: the detections without their duplicates are written to the
\* unfiltered cache at index, their filtered part is written to the filtered
\* cache at index, and then every surface has its location cache updated at
\* index from the filtered cache; no surface is updated at an index before the
\* filtered slot of that index was written.
C7_DrainOrder ==
    [][/\ \A q \in DOMAIN cache_filler.queue :
             Did("markers")' =>
                 \E k \in DOMAIN trace' :
                     trace'[k] = Ev("update_unfiltered", cache_filler.queue[q][1], 0)
       /\ \A k \in DOMAIN trace' :
             trace'[k].op = "update_unfiltered" =>
                 LET i == trace'[k].idx
                     written == marker_cache_unfiltered'.slots[i]
                     filtered == marker_cache'.slots[i]
                 IN /\ \E q \in DOMAIN cache_filler.queue :
                          /\ cache_filler.queue[q][1] = i
                          /\ ~IsFalse(written)
                          /\ Members(written.items) = Members(cache_filler.queue[q][2])
                          /\ Distinct(written.items)
                    /\ k + 1 + NumSurfaces <= Len(trace')
                    /\ trace'[k + 1] = Ev("update_filtered", i, 0)
                    /\ \A s \in Surfaces :
                          trace'[k + 1 + s] = Ev("update_location_cache", i, s)
                    /\ ~IsFalse(filtered)
                    /\ filtered.items = AtLeast(written.items, marker_min_perimeter)
                    /\ \A s \in Surfaces :
                          /\ ~location_cache'[s].isNone
                          /\ location_cache'[s].slots[i] = Location(filtered)
       /\ \A k \in DOMAIN trace' :
             trace'[k].op = "update_location_cache" =>
                 \E j \in 1 .. (k - 1) :
                     trace'[j] = Ev("update_filtered", trace'[k].idx, 0)
       /\ \A k \in DOMAIN trace' :
             trace'[k].op = "update_filtered" =>
                 k > 1 /\ trace'[k - 1] = Ev("update_unfiltered", trace'[k].idx, 0)
      ]_vars

\* C7, witness: a tick drained a frame whose detections held a duplicate and a
\* marker under the threshold, and the surface was located from what remained
C7_DrainedDuplicateAndSmall ==
    /\ Did("update_location_cache")
    /\ marker_cache_unfiltered.slots[0] = Value(<<SmallMarker, BigMarker>>)
    /\ marker_cache.slots[0] = Value(<<BigMarker>>)
    /\ location_cache[1].slots[0] = "D"

At(tr, op) == {k \in DOMAIN tr : tr[k].op = op}

\* how many times `op` was done
Times(tr, op) == Cardinality(At(tr, op))

\* every `first` was done before every `then`
Before(tr, first, then) ==
    \A j \in At(tr, first), k \in At(tr, then) : j < k

\* what the owner does on completion of the producer, and nowhere else in a tick
CompletionOps ==
    {"discard_producer", "request_heatmap", "start_gaze_buffer_filler",
     "save_surface_definitions"}

\* C9: a tick that finds the producer completed discards the reference, adds
\* every surface to the heatmap requests, starts the gaze buffer filler, saves
\* the unfiltered cache and saves the surface definitions, each once and in
\* this order; a tick that finds the producer running does none of it, and a
\* tick without a producer does none of it and saves nothing.
C9_CompletionOnce ==
    [][Did("markers")' =>
          /\ (cache_filler.ref /\ cache_filler.state = "Completed") =>
                /\ ~cache_filler'.ref
                /\ Times(trace', "discard_producer") = 1
                /\ Times(trace', "start_gaze_buffer_filler") = 1
                /\ Times(trace', "save_surface_definitions") = 1
                /\ Times(trace', "save_marker_cache") >= 1
                /\ \A s \in Surfaces :
                      /\ Times(SelectSeq(trace', LAMBDA e : e.idx = s), "request_heatmap") = 1
                      /\ s \in heatmap_update_requests'
                /\ Before(trace', "discard_producer", "request_heatmap")
                /\ Before(trace', "request_heatmap", "start_gaze_buffer_filler")
                /\ \E c \in At(trace', "save_marker_cache") :
                      /\ \A g \in At(trace', "start_gaze_buffer_filler") : g < c
                      /\ \A w \in At(trace', "save_surface_definitions") : c < w
                /\ gaze_on_surf_buffer_filler'.ref
                /\ gaze_on_surf_buffer_filler'.state = "Running"
                /\ gaze_on_surf_buffer_filler'.produced = 0
                /\ disk' = SavedDocument(marker_cache_unfiltered', inverted_markers')
          /\ (cache_filler.ref /\ cache_filler.state # "Completed") =>
                /\ cache_filler'.ref
                /\ \A k \in DOMAIN trace' : trace'[k].op \notin CompletionOps
          /\ ~cache_filler.ref =>
                /\ ~cache_filler'.ref
                /\ \A k \in DOMAIN trace' :
                      trace'[k].op \notin CompletionOps \cup {"save_marker_cache"}
                /\ disk' = disk
                /\ heatmap_update_requests' = heatmap_update_requests
                /\ gaze_on_surf_buffer_filler' = gaze_on_surf_buffer_filler
      ]_vars

\* C9, witness: the tick that found the producer completed has discarded it,
\* started the gaze filler and written the document
C9_CompletionObserved ==
    /\ Did("discard_producer")
    /\ ~cache_filler.ref
    /\ gaze_on_surf_buffer_filler.state = "Running"
    /\ Surfaces \subseteq heatmap_update_requests
    /\ \A k \in DOMAIN disk.cache : disk.cache[k].known

\* `ranges` are the maximal runs of the frames in S, in order
MaximalRuns(ranges, S) ==
    /\ \A k \in DOMAIN ranges :
          /\ 0 <= ranges[k][1] /\ ranges[k][1] < ranges[k][2]
          /\ ranges[k][2] <= NumFrames
    /\ \A k \in 1 .. (Len(ranges) - 1) : ranges[k][2] < ranges[k + 1][1]
    /\ S = {f \in Frames : \E k \in DOMAIN ranges :
                               ranges[k][1] <= f /\ f < ranges[k][2]}

\* C10: when a tick discards the completed producer, every result the producer
\* emitted is in the caches (the detections of that frame under the producer's
\* polarity, without duplicates), every frame is computed in both caches
\* (visited_ranges is the one range over the whole video), and the
\* positive_ranges of each cache are the maximal runs of the frames whose slot
\* holds at least one marker, whatever the order of producer steps, ticks and
\* seek index writes before.
C10_CompleteAtDiscard ==
    [][Did("discard_producer")' =>
          /\ \A f \in cache_filler.emitted :
                LET detected == marker_detection_callable(
                                    CACHE_MIN_MARKER_PERIMETER, cache_filler.inverted, f)
                    slot == marker_cache_unfiltered'.slots[f]
                IN /\ ~IsFalse(slot)
                   /\ Members(slot.items) = Members(detected)
                   /\ Distinct(slot.items)
          /\ \A f \in Frames : /\ ~IsFalse(marker_cache_unfiltered'.slots[f])
                               /\ ~IsFalse(marker_cache'.slots[f])
          /\ marker_cache_unfiltered'.visited_ranges = <<<<0, NumFrames>>>>
          /\ marker_cache'.visited_ranges = <<<<0, NumFrames>>>>
          /\ MaximalRuns(marker_cache_unfiltered'.positive_ranges,
                         {f \in Frames : Len(marker_cache_unfiltered'.slots[f].items) > 0})
          /\ MaximalRuns(marker_cache'.positive_ranges,
                         {f \in Frames : Len(marker_cache'.slots[f].items) > 0})
      ]_vars

\* C10, witness: the producer was discarded after frames arrived out of order
\* (the seek index had been moved), some with markers and some without
C10_DiscardedAfterSeek ==
    /\ Did("discard_producer")
    /\ cache_seek_idx > 0
    /\ marker_cache_unfiltered.visited_ranges = <<<<0, NumFrames>>>>
    /\ marker_cache_unfiltered.positive_ranges # <<>>
    /\ marker_cache_unfiltered.positive_ranges # <<<<0, NumFrames>>>>
    /\ marker_cache.positive_ranges # marker_cache_unfiltered.positive_ranges

\* C11: after marker_detection_params_changed both marker caches hold one
\* unknown slot per frame of the video, every surface's location cache is
\* invalidated, and a new producer is running from a snapshot that knows no
\* frame, whatever the handler found (a running producer, a completed one,
\* caches partly filled).
C11_RebuildFromScratch ==
    Did("marker_detection_params_changed") =>
        /\ DOMAIN marker_cache_unfiltered.slots = Frames
        /\ DOMAIN marker_cache.slots = Frames
        /\ \A f \in Frames : /\ marker_cache_unfiltered.slots[f] = Unknown
                             /\ marker_cache.slots[f] = Unknown
        /\ marker_cache_unfiltered.visited_ranges = <<>>
        /\ marker_cache_unfiltered.positive_ranges = <<>>
        /\ marker_cache.visited_ranges = <<>>
        /\ marker_cache.positive_ranges = <<>>
        /\ \A s \in Surfaces : location_cache[s].isNone
        /\ cache_filler.ref /\ cache_filler.state = "Running"
        /\ cache_filler.snapshot = {}
        /\ cache_filler.emitted = {}
        /\ cache_filler.queue = <<>>
        /\ cache_filler.inverted = inverted_markers

\* C11, witness: the rebuild found a running producer and a partly filled cache
C11_RebuiltWhileFilling ==
    /\ \E k \in DOMAIN trace :
          /\ trace[k].op = "marker_detection_params_changed"
          /\ trace[k].idx > 0 /\ trace[k].idx < NumFrames
          /\ trace[k].arg = 1
    /\ cache_filler.snapshot = {}
    /\ \A s \in Surfaces : location_cache[s].isNone

\* the frames inside the ranges
Covered(ranges) ==
    {f \in Frames : \E k \in DOMAIN ranges : ranges[k][1] <= f /\ f < ranges[k][2]}

\* C12: marker_min_perimeter_changed re-derives the filtered cache only: the
\* unfiltered cache is as it was in every slot, the producer is neither
\* started, cancelled nor replaced, the seek index is as it was, and a frame
\* whose markers are all under the new threshold is computed and empty in the
\* filtered cache while the unfiltered cache keeps its markers.
C12_RefilterOnly ==
    [][Did("marker_min_perimeter_changed")' =>
          /\ marker_cache_unfiltered' = marker_cache_unfiltered
          /\ cache_filler' = cache_filler
          /\ running' = running
          /\ cache_seek_idx' = cache_seek_idx
          /\ disk' = disk
          /\ Covered(marker_cache'.visited_ranges) =
                 Covered(marker_cache_unfiltered.visited_ranges)
          /\ \A f \in Frames :
                LET kept == marker_cache_unfiltered.slots[f]
                IN (/\ Truthy(kept)
                    /\ \A k \in DOMAIN kept.items :
                          kept.items[k].perimeter < marker_min_perimeter')
                   => /\ marker_cache'.slots[f] = Value(<<>>)
                      /\ f \in Covered(marker_cache'.visited_ranges)
                      /\ f \notin Covered(marker_cache'.positive_ranges)
                      /\ marker_cache_unfiltered'.slots[f] = kept
      ]_vars

\* C12, witness: after full production the threshold was raised over every
\* marker of a frame; no producer runs
C12_RaisedAfterProduction ==
    /\ Did("marker_min_perimeter_changed")
    /\ ~cache_filler.ref /\ running.marker = 0
    /\ marker_cache.visited_ranges = <<<<0, NumFrames>>>>
    /\ marker_cache.positive_ranges = <<>>
    /\ marker_cache_unfiltered.positive_ranges # <<>>

\* the surfaces a definition change was announced for, by `op`
Announced(tr, op) == {tr[k].idx : k \in At(tr, op)} \cap Surfaces

\* C13: a surface's location cache is invalidated by a full rebuild of the
\* marker cache (every surface), by a change of the minimum perimeter (every
\* surface) and by a change of the surface's own definition (that surface),
\* whether it arrives as surfaces_changed or through on_surface_change.
C13_InvalidatedOnEveryChange ==
    /\ (Did("marker_detection_params_changed") \/ Did("marker_min_perimeter_changed"))
           => \A s \in Surfaces : location_cache[s].isNone
    /\ \A s \in Announced(trace, "surfaces_changed") : location_cache[s].isNone
    /\ \A s \in Announced(trace, "on_surface_change") : location_cache[s].isNone

\* C13 as amended: a surface's location cache is invalidated by a full rebuild
\* (every surface), by a change of the minimum perimeter (every surface) and by
\* surfaces_changed naming the surface (that surface only); the
\* on_surface_change callback leaves every location cache as it is.
C13_InvalidatedByNotifications ==
    [][/\ (Did("marker_detection_params_changed")' \/ Did("marker_min_perimeter_changed")')
              => \A s \in Surfaces : location_cache'[s].isNone
       /\ Did("surfaces_changed")' =>
              \A s \in Surfaces :
                  IF s \in Announced(trace', "surfaces_changed")
                  THEN location_cache'[s].isNone
                  ELSE location_cache'[s] = location_cache[s]
       /\ Did("on_surface_change")' => location_cache' = location_cache
      ]_vars

\* C13, witness: surfaces_changed named a surface whose location cache had
\* been filled by the production, and the cache is invalidated
C13_InvalidatedAfterProduction ==
    /\ Announced(trace, "surfaces_changed") # {}
    /\ \A s \in Announced(trace, "surfaces_changed") : location_cache[s].isNone
    /\ marker_cache.visited_ranges = <<<<0, NumFrames>>>>
    /\ ~cache_filler.ref

\* the frames whose slot of a cache has been computed (Empty or Value)
Computed(cache) == {f \in Frames : ~IsFalse(cache.slots[f])}

\* the frames whose slot of a cache is Empty
EmptyAt(cache) == {f \in Frames : cache.slots[f] = Value(<<>>)}

\* C14: a computed slot of either cache returns to Unknown by a full rebuild
\* only; re-filtering and the save/load round trip keep Empty as Empty: the
\* filtered slot is computed exactly where the unfiltered one was, and an
\* Empty unfiltered slot stays Empty in both caches.
C14_KnownStaysKnown ==
    [][/\ ~(Computed(marker_cache_unfiltered) \subseteq Computed(marker_cache_unfiltered)'
            /\ Computed(marker_cache) \subseteq Computed(marker_cache)')
           => \/ Did("marker_detection_params_changed")'
              \/ Did("no_previous_cache")'
              \/ Did("version_mismatch")'
       /\ (Did("marker_min_perimeter_changed")' \/ Did("restored_previous_cache")')
           => /\ Computed(marker_cache_unfiltered)' = Computed(marker_cache_unfiltered)
              /\ Computed(marker_cache)' = Computed(marker_cache_unfiltered)
              /\ EmptyAt(marker_cache_unfiltered)' = EmptyAt(marker_cache_unfiltered)
              /\ EmptyAt(marker_cache_unfiltered) \subseteq EmptyAt(marker_cache)'
      ]_vars

\* C14, witness: a cache with an Empty slot and an Unknown slot has gone
\* through the save/load round trip
C14_ReloadedEmptyAndUnknown ==
    /\ Did("restored_previous_cache")
    /\ EmptyAt(marker_cache_unfiltered) # {}
    /\ Computed(marker_cache_unfiltered) # Frames

\* C15: once a rebuild has replaced the producer, nothing the earlier producer
\* computed is written to the caches: every slot a tick writes is a frame the
\* producer referred to at that tick has processed, and holds what that
\* producer detects there with the polarity it was started with.
C15_WrittenFromCurrentProducer ==
    [][\A k \in At(trace', "update_unfiltered") :
           LET i == trace'[k].idx
           IN /\ cache_filler.ref
              /\ i \in cache_filler.emitted
              /\ marker_cache_unfiltered'.slots[i] =
                     Value(remove_duplicate_markers(
                         marker_detection_callable(CACHE_MIN_MARKER_PERIMETER,
                                                   cache_filler.inverted, i)))
      ]_vars

\* C15, witness: a tick writes a result of the present producer while a
\* replaced producer is still running
C15_WrittenBesideReplaced ==
    /\ Did("update_unfiltered")
    /\ running.marker > LeftRunning(cache_filler)

\* C16: while the producer is active, the debounced save of the unfiltered
\* cache happens when more than CACHE_UPDATE_INTERVAL_SEC has passed since the
\* last one (or since construction) and restarts the interval, at most once a
\* tick: two debounced saves are more than the interval apart however often
\* the tick runs.
C16_DebouncedOncePerInterval ==
    [][Did("debounced")' =>
           /\ cache_filler.ref
           /\ since_update > CACHE_UPDATE_INTERVAL_SEC
           /\ since_update' = 0
           /\ Times(trace', "debounced") = 1
           /\ disk' = SavedDocument(marker_cache_unfiltered', inverted_markers')
      ]_vars

\* C16, witness: the debounced save was done in a tick that left the producer
\* running
C16_SavedWhileProducing ==
    /\ Did("debounced")
    /\ since_update = 0
    /\ cache_filler.ref /\ cache_filler.state = "Running"

\* the kinds of slot a cache holds: "Unknown", "Empty", "Value"
Kinds(cache) ==
    {IF IsFalse(cache.slots[f]) THEN "Unknown"
     ELSE IF Truthy(cache.slots[f]) THEN "Value" ELSE "Empty" : f \in Frames}

\* C17: _save_marker_cache followed by _init_marker_cache with the matching
\* version gives an unfiltered cache with the same slot at every index
\* (Unknown stays Unknown, Empty stays Empty, a Value keeps its detections)
\* and the same polarity flag.
C17_RoundTrip ==
    [][Did("restored_previous_cache")' =>
           /\ disk' = SavedDocument(marker_cache_unfiltered, inverted_markers)
           /\ \A f \in Frames :
                  marker_cache_unfiltered'.slots[f] = marker_cache_unfiltered.slots[f]
           /\ marker_cache_unfiltered' = Cache_List(marker_cache_unfiltered.slots)
           /\ inverted_markers' = inverted_markers
      ]_vars

\* C17, witness: a cache of inverted polarity with slots of more than one
\* kind, a Value among them, has been saved and loaded again
C17_ReloadedMixedInverted ==
    /\ Did("restored_previous_cache")
    /\ inverted_markers
    /\ "Value" \in Kinds(marker_cache_unfiltered)
    /\ Cardinality(Kinds(marker_cache_unfiltered)) > 1
    /\ disk = SavedDocument(marker_cache_unfiltered, inverted_markers)

\* a location cache that covers every frame of the export section (here the
\* whole video)
LocationComplete(cache) == ~cache.isNone /\ \A f \in Frames : cache.slots[f] # "U"

\* C18: the visibility report holds a count only when the location cache of
\* every exported surface is complete over the section; when some surface's
\* cache is missing or partly filled, the report has no row for any surface.
C18_NoCountFromIncompleteCache ==
    Did("visibility_row") => \A s \in Surfaces : LocationComplete(location_cache[s])

\* what an export writes
ReportOps ==
    {"visibility_row", "visibility_not_cached", "gaze_distribution",
     "surface_events", "AttributeError", "export_done"}

\* C19: when the export directory cannot be made the export is given up
\* before any report is written, and the marker caches, every surface's
\* location cache and the producer are what the tick's marker update left
\* them, that is, what they were when the export was attempted.
C19_AbortLeavesCaches ==
    [][Did("export_aborted")' =>
           /\ \A k \in DOMAIN trace' : trace'[k].op \notin ReportOps
           /\ ~raised'
           /\ \E frame_index \in Frames :
                  LET before == update_markers(Self, frame_index)
                  IN /\ marker_cache' = before.marker_cache
                     /\ marker_cache_unfiltered' = before.marker_cache_unfiltered
                     /\ location_cache' = before.location_cache
                     /\ cache_filler' = before.cache_filler
                     /\ running' = before.running
                     /\ cache_seek_idx' = before.cache_seek_idx
                     /\ disk' = before.disk
      ]_vars

\* C19, witness: an export was given up for want of the directory with a
\* location cache computed and the producer still running
C19_AbortedWhileProducing ==
    /\ Did("export_aborted")
    /\ \E s \in Surfaces : ~location_cache[s].isNone
    /\ cache_filler.ref /\ cache_filler.state = "Running"

\* the in-memory state of `m`, the producer included, is what the variables
\* become
SameInMemory(m) ==
    /\ inverted_markers' = m.inverted_markers
    /\ marker_min_perimeter' = m.marker_min_perimeter
    /\ marker_cache_unfiltered' = m.marker_cache_unfiltered
    /\ marker_cache' = m.marker_cache
    /\ cache_seek_idx' = m.cache_seek_idx
    /\ cache_filler' = m.cache_filler
    /\ location_cache' = m.location_cache
    /\ heatmap_update_requests' = m.heatmap_update_requests
    /\ gaze_on_surf_buffer_filler' = m.gaze_on_surf_buffer_filler
    /\ running' = m.running
    /\ since_update' = m.since_update

PositiveAt(cache) == {i \in DOMAIN cache.slots : Truthy(cache.slots[i])}

\* the indices of a cache whose slot is computed
VisitedAt(cache) == {i \in DOMAIN cache.slots : ~IsFalse(cache.slots[i])}

\* `ranges` is the sorted sequence of the maximal half-open runs of S within
\* 0 .. n - 1: in bounds, non-empty, in order with a gap between neighbours,
\* and covering exactly S
ExactRuns(ranges, S, n) ==
    /\ \A k \in DOMAIN ranges :
          /\ 0 <= ranges[k][1] /\ ranges[k][1] < ranges[k][2] /\ ranges[k][2] <= n
    /\ \A k \in 1 .. (Len(ranges) - 1) : ranges[k][2] < ranges[k + 1][1]
    /\ S = {i \in 0 .. (n - 1) : \E k \in DOMAIN ranges :
                                    ranges[k][1] <= i /\ i < ranges[k][2]}

\* C21: after any sequence of updates at any index in any order, overwrites
\* included, visited_ranges is exactly the maximal half-open runs of the
\* computed slots and positive_ranges exactly those of the computed non-empty
\* slots: sorted, non-overlapping, no two adjacent ranges left unmerged, and
\* every positive range lies within a visited range.
C21_RangesExact ==
    LET cache == marker_cache_unfiltered
        n == Cardinality(DOMAIN cache.slots)
    IN /\ ExactRuns(cache.visited_ranges, VisitedAt(cache), n)
       /\ ExactRuns(cache.positive_ranges, PositiveAt(cache), n)
       /\ \A k \in DOMAIN cache.positive_ranges :
              \E j \in DOMAIN cache.visited_ranges :
                  /\ cache.visited_ranges[j][1] <= cache.positive_ranges[k][1]
                  /\ cache.positive_ranges[k][2] <= cache.visited_ranges[j][2]

\* C21, witness: an update computed an Unknown slot between two computed
\* neighbours as Empty, which merged the visited ranges around it into one and
\* left the positive ranges on either side apart
C21_GapClosed ==
    /\ \E k \in DOMAIN trace :
          /\ trace[k].op = "update" /\ trace[k].arg = 0
          /\ 0 < trace[k].idx /\ trace[k].idx < CacheLen - 1
          /\ marker_cache_unfiltered.slots[trace[k].idx] = Value(<<>>)
    /\ marker_cache_unfiltered.visited_ranges = <<<<0, CacheLen>>>>
    /\ Len(marker_cache_unfiltered.positive_ranges) = 2

\* C22: with the tick and the producer running on and no further rebuild, the
\* producer completes, the owner sees it completed and discards it, and every
\* frame is computed in both caches, for good, wherever the seek index was
\* moved meanwhile and however late the ticks came.
C22_ProductionCompletes ==
    <>[](/\ ~cache_filler.ref
         /\ Computed(marker_cache_unfiltered) = Frames
         /\ Computed(marker_cache) = Frames)

\* C22, witness: the drain was starved until the producer had completed: one
\* tick, with the seek index moved off the start, drained every frame and
\* discarded the producer
C22_CompletedAfterStarvedDrain ==
    /\ Did("discard_producer")
    /\ Times(trace, "update_unfiltered") = NumFrames
    /\ cache_seek_idx > 0
    /\ ~cache_filler.ref
    /\ Computed(marker_cache_unfiltered) = Frames
    /\ Computed(marker_cache) = Frames

\* C23: filtering is idempotent: after _update_filtered_markers has run,
\* running it again on the unchanged unfiltered cache with the same threshold
\* gives a filtered cache with the same slots and the same visited and
\* positive ranges, and leaves everything else as it is.
C23_FilterIdempotent ==
    Did("marker_min_perimeter_changed") =>
        LET again == update_filtered_markers(Self)
        IN /\ again.marker_cache.slots = marker_cache.slots
           /\ again.marker_cache.visited_ranges = marker_cache.visited_ranges
           /\ again.marker_cache.positive_ranges = marker_cache.positive_ranges
           /\ again = Self

\* C23, witness: the filtering ran with a threshold that removes a marker from
\* one computed frame and keeps a marker in it
C23_FilteredSomeKeptSome ==
    /\ Did("marker_min_perimeter_changed")
    /\ \E f \in Frames :
          /\ Truthy(marker_cache.slots[f])
          /\ Len(marker_cache.slots[f].items)
                 < Len(marker_cache_unfiltered.slots[f].items)

\* the value the last tick gave to the attribute `op` (self.markers or
\* self.markers_unfiltered) for frame f: -1 for False, else the list's length
Exposed(tr, op, f) == {tr[k].arg : k \in {j \in At(tr, op) : tr[j].idx = f}}

\* C24: the owner writes the seek index only to send the producer to an
\* uncached frame: when the filtered slot of the tick's frame is Unknown after
\* the drain, the index becomes that frame and both exposed marker lists are
\* empty lists, never False; when the slot is computed the index stays and the
\* cached slots are exposed.  Nothing else moves the index (a construction
\* starts it at 0), and it is always 0 or a frame of the video.
C24_SeekOnlyToUncached ==
    [][/\ \A k \in At(trace', "markers") :
              LET f == trace'[k].idx
              IN IF IsFalse(marker_cache'.slots[f])
                 THEN /\ cache_seek_idx' = f
                      /\ Exposed(trace', "markers", f) = {0}
                      /\ Exposed(trace', "markers_unfiltered", f) = {0}
                 ELSE /\ cache_seek_idx' = cache_seek_idx
                      /\ Exposed(trace', "markers", f)
                             = {Len(marker_cache'.slots[f].items)}
                      /\ Exposed(trace', "markers_unfiltered", f)
                             = {Len(marker_cache_unfiltered'.slots[f].items)}
       /\ ~Did("markers")' =>
              \/ cache_seek_idx' = cache_seek_idx
              \/ /\ cache_seek_idx' = 0
                 /\ \/ Did("restored_previous_cache")'
                    \/ Did("no_previous_cache")'
                    \/ Did("version_mismatch")'
       /\ cache_seek_idx' \in Frames
      ]_vars

\* C24, witness: a tick at an uncached frame other than the first moved the
\* seek index there and exposed empty lists, with another frame cached
C24_SoughtUncachedFrame ==
    /\ \E f \in Frames \ {0} :
          /\ Exposed(trace, "markers", f) = {0}
          /\ IsFalse(marker_cache.slots[f])
          /\ cache_seek_idx = f
    /\ Computed(marker_cache) # {}

\* C25: the polarity the marker producer detects with is the pipeline's
\* inverted_markers flag, after initialization by any path and after any
\* rebuild.
C25_ProducerPolarity ==
    cache_filler.ref => cache_filler.inverted = inverted_markers

\* C26: a fixation filler exists only while a gaze filler exists: a fixation
\* filler is started only after a gaze filler was started in the same handler,
\* and the completion clears both references together, so no fixation result
\* waits behind a missing gaze filler.
C26_FixationNeedsGaze ==
    /\ fixations_on_surf_buffer_filler.ref => gaze_on_surf_buffer_filler.ref
    /\ fixations_on_surf_buffer_filler.pending > 0 => gaze_on_surf_buffer_filler.ref
    /\ \A k \in At(trace, "start_fixation_buffer_filler") :
           \E j \in At(trace, "start_gaze_buffer_filler") : j < k
    /\ Did("fillers_completed") =>
           /\ ~gaze_on_surf_buffer_filler.ref
           /\ ~fixations_on_surf_buffer_filler.ref

\* C26, witness: a completion found both fillers completed and cleared both
\* references
C26_BothCleared ==
    /\ \E k \in At(trace, "fillers_completed") : trace[k].arg = 1
    /\ ~gaze_on_surf_buffer_filler.ref
    /\ ~fixations_on_surf_buffer_filler.ref

\* C27: a should_export request leads to one export attempt at most: the tick
\* that runs the export clears make_export whatever became of the attempt (it
\* succeeded, the directory could not be made, or a surface had no location
\* cache), so later starts of the fillers start no fixation filler and later
\* completions run no export.
C27_ExportFlagCleared ==
    (Did("export_done") \/ Did("export_aborted") \/ Did("AttributeError"))
        => ~make_export

====
